---- MODULE Spec2Model ----
(***************************************************************************)
(* Deployment manager of llm_train_v2: the in-memory registry of           *)
(* src/llm_deployment.py ("mem") and the database-backed registry of       *)
(* src/fastapi-app/src/features/deployments/api.py ("db").                 *)
(*                                                                         *)
(* A worker process is identified by its pid; the k-th deployment id owns  *)
(* pid k when its launch succeeded.  "alive" is what os.kill(pid, 0)       *)
(* reports; pids are not reused.  Signals are delivered asynchronously: a  *)
(* process that was signalled exits at some later step, or not at all.     *)
(* Only the workers listen on ports of the configured range.               *)
(***************************************************************************)
EXTENDS Integers, FiniteSets, Sequences, TLC

\* ---- bounds of the model ------------------------------------------------
MaxDeploy == 1          \* deployments created in a behaviour about one deployment
MaxGpus == 2            \* accelerators the discovery query may report
MaxFree == 2            \* levels of free memory an accelerator may report
PortSpan == 2           \* number of ports in the configured range
TerminatePolls == 2     \* liveness polls that fit in PROCESS_TERMINATE_TIMEOUT

\* ---- program constants --------------------------------------------------
PortLow == 8000
PortHigh == PortLow + PortSpan - 1
HealthAttempts == 12
NoPid == 0
NoPort == 0
NoTag == ""
TagOrder == <<"y", "x">>
NoStatus == ""
NoGpu == -1
TagNames == {TagOrder[i] : i \in DOMAIN TagOrder}

Ids == 1..(MaxDeploy + 1)
Threads == {1, 2}
Ports == PortLow..PortHigh
Impls == {"mem", "db"}
Statuses == {"starting", "running", "stopped", "failed", "stopping"}

VARIABLES
    impl,       \* which registry implementation is running
    fg,         \* the request-handling threads that accept requests
    cap,        \* deployment ids the behaviour may generate
    window,     \* HTTP attempts after which a health probe gives up
    tagspace,   \* the tags that requests carry
    statusspace, \* the status filters that list requests carry
    registry,   \* deployment_id -> record (_deployments / deployments table)
    nextId,     \* number of deployment ids generated so far
    proc,       \* pid -> "none" | "alive" | "dead"
    procPort,   \* pid -> port on the worker's command line
    bound,      \* pid -> the worker is listening on its port
    th,         \* thread -> request being handled and its locals
    probe,      \* deployment_id -> state of its _background_health_check
    removed,    \* ids whose record a delete has removed
    sel,        \* a call of the GPU selector: its inputs and its result
    hc          \* a call of check_http_health: the replies it meets, its requests, its result

vars == <<impl, fg, cap, window, tagspace, statusspace, registry, nextId, proc, procPort, bound, th, probe,
          removed, sel, hc>>

\* ---- records --------------------------------------------------------------
DeploymentInfo(status, pid, port, health, stoppedAt) ==
    [status |-> status, pid |-> pid, port |-> port,
     health_ok |-> health, stopped_at |-> stoppedAt]

Idle ==
    [pc |-> "idle", op |-> "none", id |-> 0, force |-> FALSE, pid |-> NoPid,
     port |-> NoPort, polls |-> 0, stopped |-> FALSE, alive |-> FALSE,
     res |-> 0, sentTerm |-> FALSE, sentKill |-> FALSE, deadAtStart |-> FALSE,
     after409 |-> FALSE, todo |-> {}, checked |-> {}, tag |-> NoTag, body |-> {},
     status |-> NoStatus, shown |-> << >>]

\* the handler ends with HTTP status r; locals that no longer matter are dropped
Finish(loc, r) ==
    [loc EXCEPT !.pc = "done", !.res = r, !.pid = NoPid, !.port = NoPort,
                !.polls = 0, !.alive = FALSE, !.todo = {}]

\* answered: some HTTP attempt of the probe was answered 200
\* late: the probe made its write after a delete had removed the record
NoProbe ==
    [pc |-> "none", attempts |-> 0, success |-> FALSE, answered |-> FALSE,
     late |-> FALSE]

\* ---- operating system -----------------------------------------------------
\* os.kill(pid, 0) succeeds
Alive(p) == p \in Ids /\ proc[p] = "alive"

\* _is_port_free: the bind on 127.0.0.1 succeeds
IsPortFree(p) == ~ \E q \in Ids : proc[q] = "alive" /\ bound[q] /\ procPort[q] = p

RECURSIVE ScanPorts(_, _)
ScanPorts(p, high) ==
    IF p > high THEN NoPort
    ELSE IF IsPortFree(p) THEN p
    ELSE ScanPorts(p + 1, high)

\* variant: the scan runs from the top of the range downwards
FindFreePortHighest(low, high) ==
    IF \E p \in low..high : IsPortFree(p)
    THEN CHOOSE p \in low..high : IsPortFree(p) /\ \A q \in (p + 1)..high : ~IsPortFree(q)
    ELSE NoPort
\* variant: the scan starts one port too low
FindFreePortFromBelow(low, high) == ScanPorts(low - 1, high)
\* find_free_port: first port of [low, high] that binds, NoPort for the RuntimeError
FindFreePort(low, high) == ScanPorts(low, high)

\* requests.get on the health path (or the root path): only a listening
\* worker on that port can answer 200
HealthOutcomes(port) ==
    IF \E q \in Ids : proc[q] = "alive" /\ bound[q] /\ procPort[q] = port
    THEN BOOLEAN ELSE {FALSE}

\* os.killpg(os.getpgid(pid), s), else os.kill(pid, s): the signal reaches a
\* process that exists; for a missing one both calls raise and the exception
\* is swallowed
Signalled(p) == Alive(p)

\* ---- GPU selector ---------------------------------------------------------------
GpuIds == 0..(MaxGpus - 1)

\* what get_gpu_free_memory may return: (index, free memory) pairs of
\* different accelerators, in the order the query reported them
GpuLists ==
    {l \in UNION {[1..n -> [id : GpuIds, free : 1..MaxFree]] : n \in 0..MaxGpus} :
       \A i, j \in DOMAIN l : i # j => l[i].id # l[j].id}

\* the preferred_gpu of a request: absent, a reported index or an index that
\* is not reported
Preferences == {NoGpu} \cup 0..MaxGpus

RECURSIVE InsertDesc(_, _)
InsertDesc(g, sorted) ==
    IF Len(sorted) = 0 THEN <<g>>
    ELSE IF Head(sorted).free >= g.free
    THEN <<Head(sorted)>> \o InsertDesc(g, Tail(sorted))
    ELSE <<g>> \o sorted

\* sorted(gpus, key=lambda x: x[1], reverse=True): the sort is stable, pairs
\* with the same free memory keep the order they came in
RECURSIVE SortedDesc(_)
SortedDesc(gpus) ==
    IF Len(gpus) = 0 THEN << >>
    ELSE InsertDesc(gpus[Len(gpus)], SortedDesc(SubSeq(gpus, 1, Len(gpus) - 1)))

\* variant: "if preferred:" in place of "if preferred is not None:"
PickGpuTruthy(gpus, preferred) ==
    IF Len(gpus) = 0 THEN NoGpu
    ELSE IF preferred # NoGpu /\ preferred # 0
            /\ \E i \in DOMAIN gpus : gpus[i].id = preferred
    THEN preferred
    ELSE SortedDesc(gpus)[1].id
\* pick_gpu
PickGpu(gpus, preferred) ==
    IF Len(gpus) = 0 THEN NoGpu
    ELSE IF preferred # NoGpu /\ \E i \in DOMAIN gpus : gpus[i].id = preferred
    THEN preferred
    ELSE SortedDesc(gpus)[1].id

NoSelection == [pc |-> "none", gpus |-> << >>, preferred |-> NoGpu, result |-> NoGpu]

\* ---- HTTP health check -----------------------------------------------------------
\* status codes a worker may answer with
HttpCodes == {200, 204, 404, 500, 503}

\* what requests.get meets: a response with a status code, or an exception
\* (connection refused, timeout)
Replies ==
    [kind : {"status"}, code : HttpCodes]
        \cup [kind : {"refused", "timeout"}, code : {0}]

\* requests.get returned a response
Answered(reply) == reply.kind = "status"

\* r.status_code == 200
Is200(reply) == reply.kind = "status" /\ reply.code = 200

NoHealthCall ==
    [pc |-> "none", health |-> [kind |-> "refused", code |-> 0],
     root |-> [kind |-> "refused", code |-> 0], requests |-> << >>, result |-> FALSE]

\* ---- storage ----------------------------------------------------------------
Merge(rec, fields) ==
    [k \in DOMAIN rec |-> IF k \in DOMAIN fields THEN fields[k] ELSE rec[k]]

Blank == DeploymentInfo("starting", NoPid, NoPort, FALSE, FALSE)

\* variant: a missing row is created by the update
UpsertDeployment(reg, id, fields) ==
    IF id \in DOMAIN reg
    THEN [reg EXCEPT ![id] = Merge(@, fields)]
    ELSE [d \in DOMAIN reg \cup {id} |->
            IF d = id THEN Merge(Blank, fields) ELSE reg[d]]
\* DatabaseStorage.update_deployment; also the "dep = _deployments.get(id);
\* if dep: ..." writes of the in-memory registry
UpdateDeployment(reg, id, fields) ==
    IF id \in DOMAIN reg
    THEN [reg EXCEPT ![id] = Merge(@, fields)]
    ELSE reg

\* ---- tags ---------------------------------------------------------------------
\* the tag lists a create request may carry: the sub-lists of TagOrder made of
\* tags of S
TagLists(S) == {SelectSeq(TagOrder, LAMBDA a : a \in T) : T \in SUBSET S}

\* the tag filters a list request may carry; NoTag when the parameter is absent
TagFilters(S) == S \cup {NoTag}

RECURSIVE Joined(_)
Joined(tags) ==
    IF Len(tags) = 0 THEN << >>
    ELSE IF Len(tags) = 1 THEN <<tags[1]>>
    ELSE <<tags[1], ",">> \o Joined(Tail(tags))

\* _as_json: json.dumps of a list of strings, as its sequence of tokens
AsJson(tags) == <<"[">> \o Joined(tags) \o <<"]">>

\* _from_json: json.loads, the default for an empty text; the elements are the
\* tokens between the brackets and the commas
FromJson(text, default) ==
    IF Len(text) = 0 THEN default
    ELSE [i \in 1..((Len(text) - 1) \div 2) |-> text[2 * i]]

\* the tags as the registry keeps them: a list, or the tags_json column
StoredTags(tags) == IF impl = "db" THEN AsJson(tags) ELSE tags

\* the "tags" of a record as list reads them (_to_deployment_dict)
Tags(rec) == IF impl = "db" THEN FromJson(rec.tags, << >>) ELSE rec.tags

\* the record with the tags of the request
WithTags(rec, tags) ==
    [k \in DOMAIN rec \cup {"tags"} |-> IF k = "tags" THEN StoredTags(tags) ELSE rec[k]]

\* variant: only the first tag of the record is compared
HasFirstTag(tags, tag) ==
    tag = NoTag \/ (Len(tags) > 0 /\ tags[1] = tag)
\* "if tag and tag not in tags: continue"
HasTag(tags, tag) ==
    tag = NoTag \/ \E i \in 1..Len(tags) : tags[i] = tag

\* ---- status filter ------------------------------------------------------------
\* the spellings of a status a client may send
StatusSpellings == {"starting", "RUNNING", "stopped"}

\* the status filters a list request may carry; NoStatus when absent
StatusFilters(S) == S \cup {NoStatus}

\* str.lower on the spellings in use
Lower(text) == IF text = "RUNNING" THEN "running" ELSE text

\* in-memory version:
\* "if status and (info.get("status") or "").lower() != status.lower(): continue"
StatusMatches(rec, status) ==
    status = NoStatus \/ Lower(rec.status) = Lower(status)

\* database version: the handler passes status.lower(), the query is
\* where(DeploymentModel.status == status)
StatusSelected(rec, status) ==
    status = NoStatus \/ rec.status = Lower(status)

\* create_deployment_record / _deployments[id] = {...}
InsertDeployment(reg, id, rec) ==
    [d \in DOMAIN reg \cup {id} |-> IF d = id THEN rec ELSE reg[d]]

\* DatabaseStorage.delete_deployment / _deployments.pop(id, None)
RemoveDeployment(reg, id) ==
    [d \in DOMAIN reg \ {id} |-> reg[d]]

\* ---- initial state ------------------------------------------------------------
InitCommon ==
    /\ impl \in Impls
    /\ registry = << >>
    /\ nextId = 0
    /\ proc = [p \in Ids |-> "none"]
    /\ procPort = [p \in Ids |-> NoPort]
    /\ bound = [p \in Ids |-> FALSE]
    /\ th = [t \in fg |-> Idle]
    /\ probe = [d \in Ids |-> NoProbe]
    /\ removed = {}
    /\ sel = NoSelection
    /\ hc = NoHealthCall

\* A failed HTTP attempt that is followed by another one changes nothing but
\* the probe's loop counter, so a specification that does not count attempts
\* lets the probe give up after one (window = 1).

\* one synchronous request-handling path, one deployment
Init == fg = {1} /\ cap = MaxDeploy /\ window = 1 /\ tagspace = {} /\ statusspace = {}
    /\ InitCommon

\* one synchronous request-handling path, one deployment more
InitSeq == fg = {1} /\ cap = MaxDeploy + 1 /\ window = 1 /\ tagspace = {} /\ statusspace = {}
    /\ InitCommon

\* two deployments requested by overlapping calls
InitCreateConc == fg = Threads /\ cap = MaxDeploy + 1 /\ window = 1 /\ tagspace = {} /\ statusspace = {}
    /\ InitCommon

\* requests handled by several pool threads at once
InitConc == fg = Threads /\ cap = MaxDeploy /\ window = 1 /\ tagspace = {} /\ statusspace = {}
    /\ InitCommon

\* create and list requests that carry tags
InitList ==
    fg = {1} /\ cap = MaxDeploy /\ window = 1 /\ tagspace = TagNames
    /\ statusspace = {}
    /\ InitCommon

\* list requests that carry a tag filter, a status filter, or both
InitFilter ==
    fg = {1} /\ cap = MaxDeploy /\ window = 1 /\ tagspace = TagNames
    /\ statusspace = StatusSpellings
    /\ InitCommon

\* the probe's attempts are counted: it gives up after range(12)
InitProbe == fg = {1} /\ cap = MaxDeploy /\ window = HealthAttempts /\ tagspace = {} /\ statusspace = {}
    /\ InitCommon

\* a call of check_http_health against some reply on the health path and
\* some reply on the root path
InitHealth ==
    /\ fg = {} /\ cap = 0 /\ window = 1 /\ tagspace = {} /\ statusspace = {}
    /\ impl \in Impls
    /\ registry = << >>
    /\ nextId = 0
    /\ proc = [p \in Ids |-> "none"]
    /\ procPort = [p \in Ids |-> NoPort]
    /\ bound = [p \in Ids |-> FALSE]
    /\ th = [t \in fg |-> Idle]
    /\ probe = [d \in Ids |-> NoProbe]
    /\ removed = {}
    /\ sel = NoSelection
    /\ \E health \in Replies, root \in Replies :
         hc = [NoHealthCall EXCEPT !.pc = "call", !.health = health, !.root = root]

\* a call of the GPU selector on some discovery result and some preference
InitGpu ==
    /\ fg = {} /\ cap = 0 /\ window = 1 /\ tagspace = {} /\ statusspace = {}
    /\ impl \in Impls
    /\ registry = << >>
    /\ nextId = 0
    /\ proc = [p \in Ids |-> "none"]
    /\ procPort = [p \in Ids |-> NoPort]
    /\ bound = [p \in Ids |-> FALSE]
    /\ th = [t \in fg |-> Idle]
    /\ probe = [d \in Ids |-> NoProbe]
    /\ removed = {}
    /\ hc = NoHealthCall
    /\ \E gpus \in GpuLists, preferred \in Preferences :
         sel = [pc |-> "call", gpus |-> gpus, preferred |-> preferred, result |-> NoGpu]

\* ---- GPU selection ---------------------------------------------------------------
\* gpu_id = pick_gpu(req.preferred_gpu)
SelectGpu ==
    /\ sel.pc = "call"
    /\ sel' = [sel EXCEPT !.pc = "picked", !.result = PickGpu(sel.gpus, sel.preferred)]
    /\ UNCHANGED <<impl, fg, cap, window, tagspace, statusspace, hc, registry, nextId, proc,
                   procPort, bound, th, probe, removed>>

\* ---- check_http_health -----------------------------------------------------------
\* variant: any failure of the health path, a non-200 answer included, is
\* followed by the request to the root path
HealthRequestAlwaysFallsBack ==
    /\ hc.pc = "call"
    /\ hc' = IF Is200(hc.health)
             THEN [hc EXCEPT !.pc = "done", !.requests = Append(@, "health"),
                             !.result = TRUE]
             ELSE [hc EXCEPT !.pc = "fallback", !.requests = Append(@, "health")]
    /\ UNCHANGED <<impl, fg, cap, window, tagspace, statusspace, sel, registry, nextId, proc, procPort, bound, th, probe, removed>>

\* requests.get(url): a response ends the call with status_code == 200, an
\* exception leads to the except branch
HealthRequest ==
    /\ hc.pc = "call"
    /\ hc' = IF Answered(hc.health)
             THEN [hc EXCEPT !.pc = "done", !.requests = Append(@, "health"),
                             !.result = Is200(hc.health)]
             ELSE [hc EXCEPT !.pc = "fallback", !.requests = Append(@, "health")]
    /\ UNCHANGED <<impl, fg, cap, window, tagspace, statusspace, sel, registry, nextId, proc, procPort, bound, th, probe, removed>>

\* the except branch: one requests.get on "/", False when that raises too
RootRequest ==
    /\ hc.pc = "fallback"
    /\ hc' = [hc EXCEPT !.pc = "done", !.requests = Append(@, "root"),
                        !.result = Is200(hc.root)]
    /\ UNCHANGED <<impl, fg, cap, window, tagspace, statusspace, sel, registry, nextId, proc, procPort, bound, th, probe, removed>>

\* ---- worker processes (environment) --------------------------------------------
\* the worker exits: on its own, or after a terminate or kill signal
ProcExit(p) ==
    /\ proc[p] = "alive"
    /\ proc' = [proc EXCEPT ![p] = "dead"]
    /\ bound' = [bound EXCEPT ![p] = FALSE]
    /\ UNCHANGED <<impl, fg, cap, window, tagspace, statusspace, sel, hc, registry, nextId, procPort, th, probe, removed>>

\* the worker starts listening on the port of its command line
ProcBind(p) ==
    /\ proc[p] = "alive"
    /\ ~bound[p]
    /\ IsPortFree(procPort[p])
    /\ bound' = [bound EXCEPT ![p] = TRUE]
    /\ UNCHANGED <<impl, fg, cap, window, tagspace, statusspace, sel, hc, registry, nextId, proc, procPort, th, probe, removed>>

\* ---- create_deployment -----------------------------------------------------------
\* variant: the error of find_free_port is not caught and surfaces as a 500
CreateAllocUncaught(t) ==
    /\ th[t].pc = "idle"
    /\ LET port == FindFreePort(PortLow, PortHigh) IN
       IF port = NoPort
       THEN th' = [th EXCEPT ![t] = [Idle EXCEPT !.pc = "done", !.op = "create", !.res = 500]]
       ELSE /\ nextId + Cardinality({u \in fg : th[u].pc = "c_spawn"}) < cap
            /\ th' = [th EXCEPT ![t] = [Idle EXCEPT !.pc = "c_spawn", !.op = "create", !.port = port]]
    /\ UNCHANGED <<impl, fg, cap, window, tagspace, statusspace, sel, hc, registry, nextId, proc, procPort, bound, probe, removed>>

\* port allocation; 503 when find_free_port raises
CreateAlloc(t) ==
    /\ th[t].pc = "idle"
    /\ LET port == FindFreePort(PortLow, PortHigh) IN
       IF port = NoPort
       THEN th' = [th EXCEPT ![t] = [Idle EXCEPT !.pc = "done", !.op = "create", !.res = 503]]
       ELSE /\ nextId + Cardinality({u \in fg : th[u].pc = "c_spawn"}) < cap
            /\ th' = [th EXCEPT ![t] = [Idle EXCEPT !.pc = "c_spawn", !.op = "create", !.port = port]]
    /\ UNCHANGED <<impl, fg, cap, window, tagspace, statusspace, sel, hc, registry, nextId, proc, procPort, bound, probe, removed>>

\* uuid4, then start_vllm_process succeeds
CreateSpawn(t) ==
    /\ th[t].pc = "c_spawn"
    /\ LET id == nextId + 1 IN
       /\ nextId' = id
       /\ proc' = [proc EXCEPT ![id] = "alive"]
       /\ procPort' = [procPort EXCEPT ![id] = th[t].port]
       /\ th' = [th EXCEPT ![t].pc = "c_insert", ![t].id = id, ![t].pid = id]
    /\ UNCHANGED <<impl, fg, cap, window, tagspace, statusspace, sel, hc, registry, bound, probe, removed>>

\* variant: the failed attempt is answered 500 but no record is stored
CreateSpawnFailDropped(t) ==
    /\ th[t].pc = "c_spawn"
    /\ LET id == nextId + 1 IN
       /\ nextId' = id
       /\ th' = [th EXCEPT ![t] = Finish([@ EXCEPT !.id = id], 500)]
    /\ UNCHANGED <<impl, fg, cap, window, tagspace, statusspace, sel, hc, registry, proc, procPort, bound, probe, removed>>

\* uuid4, then start_vllm_process raises: the record is stored as failed, with
\* the tags of the request body, 500
CreateSpawnFail(t) ==
    /\ th[t].pc = "c_spawn"
    /\ LET id == nextId + 1 IN
       /\ nextId' = id
       /\ \E tags \in TagLists(tagspace) :
            registry' = InsertDeployment(registry, id,
                           WithTags(DeploymentInfo("failed", NoPid, th[t].port, FALSE, TRUE),
                                    tags))
       /\ th' = [th EXCEPT ![t] = Finish([@ EXCEPT !.id = id], 500)]
    /\ UNCHANGED <<impl, fg, cap, window, tagspace, statusspace, sel, hc, proc, procPort, bound, probe, removed>>

\* variant: the port is looked up in the registry before the insert and a
\* port no record holds is taken instead
CreateInsertFreshPort(t) ==
    /\ th[t].pc = "c_insert"
    /\ LET taken == {registry[d].port : d \in DOMAIN registry}
           port == IF th[t].port \in taken /\ Ports \ taken # {}
                   THEN CHOOSE p \in Ports \ taken : TRUE
                   ELSE th[t].port IN
       \E tags \in TagLists(tagspace) :
         registry' = InsertDeployment(registry, th[t].id,
                        WithTags(DeploymentInfo("starting", th[t].pid, port, FALSE, FALSE),
                                 tags))
    /\ th' = [th EXCEPT ![t].pc = "c_return"]
    /\ UNCHANGED <<impl, fg, cap, window, tagspace, statusspace, sel, hc, nextId, proc, procPort, bound, probe, removed>>

\* the record of a launched worker is stored as starting, with the tags of the
\* request body
CreateInsert(t) ==
    /\ th[t].pc = "c_insert"
    /\ \E tags \in TagLists(tagspace) :
         registry' = InsertDeployment(registry, th[t].id,
                        WithTags(DeploymentInfo("starting", th[t].pid, th[t].port,
                                                FALSE, FALSE), tags))
    /\ th' = [th EXCEPT ![t].pc = "c_return"]
    /\ UNCHANGED <<impl, fg, cap, window, tagspace, statusspace, sel, hc, nextId, proc, procPort, bound, probe, removed>>

\* add_task and the response; the in-memory version reads the record back
\* from _deployments without the lock, and its route declares no status_code,
\* so it answers with the default 200 where the database version answers 201
CreateReturn(t) ==
    /\ th[t].pc = "c_return"
    /\ IF impl = "mem" /\ th[t].id \notin DOMAIN registry
       THEN /\ th' = [th EXCEPT ![t] = Finish(@, 500)]
            /\ probe' = probe
       ELSE /\ th' = [th EXCEPT ![t] = Finish(@, IF impl = "mem" THEN 200 ELSE 201)]
            /\ probe' = [probe EXCEPT ![th[t].id] = [NoProbe EXCEPT !.pc = "sleep"]]
    /\ UNCHANGED <<impl, fg, cap, window, tagspace, statusspace, sel, hc, registry, nextId, proc, procPort, bound, removed>>

\* ---- _background_health_check ----------------------------------------------------
\* variant: the HTTP polling starts without the liveness check
ProbeCheckSkipped(d) ==
    /\ probe[d].pc = "sleep"
    /\ probe' = [probe EXCEPT ![d].pc = "http"]
    /\ UNCHANGED <<impl, fg, cap, window, tagspace, statusspace, sel, hc, registry, nextId, proc, procPort, bound, th, removed>>

\* after the grace period: os.kill(pid, 0)
ProbeCheck(d) ==
    /\ probe[d].pc = "sleep"
    /\ probe' = [probe EXCEPT ![d].pc = IF Alive(d) THEN "http" ELSE "dead_write"]
    /\ UNCHANGED <<impl, fg, cap, window, tagspace, statusspace, sel, hc, registry, nextId, proc, procPort, bound, th, removed>>

\* the process was gone: stopped, health_ok false, stopped_at
ProbeDeadWrite(d) ==
    /\ probe[d].pc = "dead_write"
    /\ registry' = UpdateDeployment(registry, d,
                      [status |-> "stopped", health_ok |-> FALSE, stopped_at |-> TRUE])
    /\ probe' = [probe EXCEPT ![d] = [NoProbe EXCEPT !.pc = "done", !.late = (d \in removed)]]
    /\ UNCHANGED <<impl, fg, cap, window, tagspace, statusspace, sel, hc, nextId, proc, procPort, bound, th, removed>>

\* variant: the loop has no break, the last attempt decides
ProbeHttpNoBreak(d) ==
    /\ probe[d].pc = "http"
    /\ \E ok \in HealthOutcomes(procPort[d]) :
         probe' = [probe EXCEPT
                     ![d].attempts = @ + 1,
                     ![d].success = ok,
                     ![d].answered = @ \/ ok,
                     ![d].pc = IF probe[d].attempts + 1 >= window
                               THEN "write" ELSE "http"]
    /\ UNCHANGED <<impl, fg, cap, window, tagspace, statusspace, sel, hc, registry, nextId, proc, procPort, bound, th, removed>>

\* variant: the loop runs once more than the window
ProbeHttpOneMore(d) ==
    /\ probe[d].pc = "http"
    /\ \E ok \in HealthOutcomes(procPort[d]) :
         probe' = [probe EXCEPT
                     ![d].attempts = @ + 1,
                     ![d].success = ok,
                     ![d].answered = @ \/ ok,
                     ![d].pc = IF ok \/ probe[d].attempts + 1 >= window + 1
                               THEN "write" ELSE "http"]
    /\ UNCHANGED <<impl, fg, cap, window, tagspace, statusspace, sel, hc, registry, nextId, proc, procPort, bound, th, removed>>

\* one iteration of "for _ in range(12)"
ProbeHttp(d) ==
    /\ probe[d].pc = "http"
    /\ \E ok \in HealthOutcomes(procPort[d]) :
         probe' = [probe EXCEPT
                     ![d].attempts = @ + 1,
                     ![d].success = ok,
                     ![d].answered = @ \/ ok,
                     ![d].pc = IF ok \/ probe[d].attempts + 1 >= window
                               THEN "write" ELSE "http"]
    /\ UNCHANGED <<impl, fg, cap, window, tagspace, statusspace, sel, hc, registry, nextId, proc, procPort, bound, th, removed>>

\* variant: the final write of the probe sets health_ok and leaves the status
ProbeWriteHealthOnly(d) ==
    /\ probe[d].pc = "write"
    /\ registry' = UpdateDeployment(registry, d, [health_ok |-> probe[d].success])
    /\ probe' = [probe EXCEPT ![d] = [NoProbe EXCEPT !.pc = "done", !.late = (d \in removed)]]
    /\ UNCHANGED <<impl, fg, cap, window, tagspace, statusspace, sel, hc, nextId, proc, procPort, bound, th, removed>>

\* after the loop: running, health_ok = success
ProbeWrite(d) ==
    /\ probe[d].pc = "write"
    /\ registry' = UpdateDeployment(registry, d,
                      [status |-> "running", health_ok |-> probe[d].success])
    /\ probe' = [probe EXCEPT ![d] = [NoProbe EXCEPT !.pc = "done", !.late = (d \in removed)]]
    /\ UNCHANGED <<impl, fg, cap, window, tagspace, statusspace, sel, hc, nextId, proc, procPort, bound, th, removed>>

\* ---- get_deployment ----------------------------------------------------------------
\* variant: the refresh does not look at the pid
GetReadAlwaysChecks(t, d) ==
    /\ d <= cap
    /\ th[t].pc = "idle"
    /\ th' = [th EXCEPT ![t] =
                IF d \notin DOMAIN registry
                THEN [Idle EXCEPT !.pc = "done", !.op = "get", !.id = d, !.res = 404]
                ELSE [Idle EXCEPT !.pc = "g_check", !.op = "get", !.id = d,
                                  !.pid = registry[d].pid, !.port = registry[d].port]]
    /\ UNCHANGED <<impl, fg, cap, window, tagspace, statusspace, sel, hc, registry, nextId, proc, procPort, bound, probe, removed>>

\* the record is looked up: 404 when absent, returned as it is when pid is unset
GetRead(t, d) ==
    /\ d <= cap
    /\ th[t].pc = "idle"
    /\ th' = [th EXCEPT ![t] =
                IF d \notin DOMAIN registry
                THEN [Idle EXCEPT !.pc = "done", !.op = "get", !.id = d, !.res = 404]
                ELSE IF registry[d].pid = NoPid
                THEN [Idle EXCEPT !.pc = "done", !.op = "get", !.id = d, !.res = 200]
                ELSE [Idle EXCEPT !.pc = "g_check", !.op = "get", !.id = d,
                                  !.pid = registry[d].pid, !.port = registry[d].port]]
    /\ UNCHANGED <<impl, fg, cap, window, tagspace, statusspace, sel, hc, registry, nextId, proc, procPort, bound, probe, removed>>

\* os.kill(pid, 0)
GetCheck(t) ==
    /\ th[t].pc = "g_check"
    /\ th' = [th EXCEPT ![t].pc = "g_write", ![t].alive = Alive(th[t].pid)]
    /\ UNCHANGED <<impl, fg, cap, window, tagspace, statusspace, sel, hc, registry, nextId, proc, procPort, bound, probe, removed>>

\* variant: the refresh of a dead worker also gives up the record's port
RefreshedFreesPort(alive, ok) ==
    IF alive
    THEN [status |-> "running", health_ok |-> ok]
    ELSE [status |-> "stopped", health_ok |-> FALSE, port |-> NoPort]
\* variant: a live worker that does not answer gets a status of its own
RefreshedUnhealthy(alive, ok) ==
    [status |-> IF ~alive THEN "stopped" ELSE IF ok THEN "running" ELSE "unhealthy",
     health_ok |-> IF alive THEN ok ELSE FALSE]
\* variant: the status is written as running whatever the liveness check said
RefreshedAlwaysRunning(alive, ok) ==
    [status |-> "running",
     health_ok |-> IF alive THEN ok ELSE FALSE]
\* the fields a lazy refresh writes
Refreshed(alive, ok) ==
    [status |-> IF alive THEN "running" ELSE "stopped",
     health_ok |-> IF alive THEN ok ELSE FALSE]

\* "check_http_health(...) if alive else False": the request is made for a
\* live process only
RefreshOutcomes(alive, port) == IF alive THEN HealthOutcomes(port) ELSE {FALSE}

\* variant: a health request that fails escalates to a 500 and nothing is written
GetWritePropagates(t) ==
    /\ th[t].pc = "g_write"
    /\ \E ok \in RefreshOutcomes(th[t].alive, th[t].port) :
         IF th[t].alive /\ ~ok
         THEN /\ registry' = registry
              /\ th' = [th EXCEPT ![t] = Finish(@, 500)]
         ELSE /\ registry' = UpdateDeployment(registry, th[t].id, Refreshed(th[t].alive, ok))
              /\ th' = [th EXCEPT ![t] =
                          Finish([@ EXCEPT !.checked = IF th[t].alive THEN {th[t].id} ELSE {}], 200)]
    /\ UNCHANGED <<impl, fg, cap, window, tagspace, statusspace, sel, hc, nextId, proc, procPort, bound, probe, removed>>

\* status and health_ok are written; a record removed meanwhile is left alone
\* (the write lands on the detached dict, update_deployment returns None);
\* checked: the ids this request made an HTTP health check for
GetWrite(t) ==
    /\ th[t].pc = "g_write"
    /\ \E ok \in RefreshOutcomes(th[t].alive, th[t].port) :
         registry' = UpdateDeployment(registry, th[t].id, Refreshed(th[t].alive, ok))
    /\ th' = [th EXCEPT ![t] =
                Finish([@ EXCEPT !.checked = IF th[t].alive THEN {th[t].id} ELSE {}], 200)]
    /\ UNCHANGED <<impl, fg, cap, window, tagspace, statusspace, sel, hc, nextId, proc, procPort, bound, probe, removed>>

\* ---- list_deployments ----------------------------------------------------------------
\* in-memory version: every record with a pid is refreshed under the lock,
\* then the records that pass the filters are returned (body) as they are at
\* that moment (shown: the status in each returned entry)
ListMem(t, tag, status) ==
    /\ impl = "mem"
    /\ th[t].pc = "idle"
    /\ \E healthy \in SUBSET {d \in DOMAIN registry :
                                registry[d].pid # NoPid /\ Alive(registry[d].pid)
                                /\ TRUE \in HealthOutcomes(registry[d].port)} :
         registry' = [d \in DOMAIN registry |->
                        IF registry[d].pid = NoPid THEN registry[d]
                        ELSE Merge(registry[d],
                                   Refreshed(Alive(registry[d].pid), d \in healthy))]
    /\ th' = [th EXCEPT ![t] =
                [Idle EXCEPT !.pc = "done", !.op = "list", !.res = 200,
                             !.tag = tag, !.status = status,
                             !.body = {d \in DOMAIN registry :
                                         /\ HasTag(Tags(registry[d]), tag)
                                         /\ StatusMatches(registry'[d], status)},
                             !.shown = [d \in {e \in DOMAIN registry :
                                                 /\ HasTag(Tags(registry[e]), tag)
                                                 /\ StatusMatches(registry'[e], status)}
                                          |-> registry'[d].status],
                             !.checked = {d \in DOMAIN registry :
                                            registry[d].pid # NoPid
                                            /\ Alive(registry[d].pid)}]]
    /\ UNCHANGED <<impl, fg, cap, window, tagspace, statusspace, sel, hc, nextId, proc, procPort, bound, probe, removed>>

\* database version: store.list_deployments returns a snapshot of the rows
\* that pass the filters (body); those with a pid are refreshed one by one
ListQuery(t, tag, status) ==
    /\ impl = "db"
    /\ th[t].pc = "idle"
    /\ LET records == {d \in DOMAIN registry :
                         /\ StatusSelected(registry[d], status)
                         /\ HasTag(Tags(registry[d]), tag)} IN
         th' = [th EXCEPT ![t] = [Idle EXCEPT !.pc = "l_next", !.op = "list",
                                    !.tag = tag, !.status = status, !.body = records,
                                    !.shown = [d \in records |-> registry[d].status],
                                    !.todo = {d \in records : registry[d].pid # NoPid}]]
    /\ UNCHANGED <<impl, fg, cap, window, tagspace, statusspace, sel, hc, registry, nextId, proc, procPort, bound, probe, removed>>

\* next row of the snapshot (rows come in insertion order) that has a pid:
\* os.kill(pid, 0)
ListCheck(t) ==
    /\ th[t].pc = "l_next"
    /\ IF th[t].todo = {}
       THEN th' = [th EXCEPT ![t] = Finish(@, 200)]
       ELSE LET d == CHOOSE x \in th[t].todo : \A y \in th[t].todo : x <= y IN
              th' = [th EXCEPT ![t].pc = "l_write", ![t].id = d, ![t].pid = d,
                               ![t].port = procPort[d], ![t].alive = Alive(d),
                               ![t].todo = @ \ {d}]
    /\ UNCHANGED <<impl, fg, cap, window, tagspace, statusspace, sel, hc, registry, nextId, proc, procPort, bound, probe, removed>>

\* store.update_deployment for that row; "if updated: info = updated": the
\* entry returned for the row is the row as just written
ListWrite(t) ==
    /\ th[t].pc = "l_write"
    /\ \E ok \in RefreshOutcomes(th[t].alive, th[t].port) :
         registry' = UpdateDeployment(registry, th[t].id, Refreshed(th[t].alive, ok))
    /\ th' = [th EXCEPT ![t].pc = "l_next",
                        ![t].shown = IF th[t].id \in DOMAIN registry
                                     THEN [@ EXCEPT ![th[t].id] = registry'[th[t].id].status]
                                     ELSE @,
                        ![t].checked = IF th[t].alive THEN @ \cup {th[t].id} ELSE @]
    /\ UNCHANGED <<impl, fg, cap, window, tagspace, statusspace, sel, hc, nextId, proc, procPort, bound, probe, removed>>

\* ---- delete_deployment ----------------------------------------------------------------
\* variant: delete on an id that is not there answers 200
BeginDeleteIdempotent(t, d, force, retry) ==
    IF d \notin DOMAIN registry
    THEN /\ th' = [th EXCEPT ![t] = [Idle EXCEPT !.pc = "done", !.op = "delete",
                                       !.id = d, !.force = force, !.res = 200,
                                       !.after409 = retry]]
         /\ registry' = registry
    ELSE /\ th' = [th EXCEPT ![t] =
                     [Idle EXCEPT !.pc = IF impl = "db" THEN "d_mark"
                                         ELSE IF registry[d].pid = NoPid THEN "d_remove"
                                         ELSE "d_term",
                                  !.op = "delete", !.id = d, !.force = force,
                                  !.pid = registry[d].pid,
                                  !.deadAtStart = ~Alive(registry[d].pid),
                                  !.after409 = retry]]
         /\ registry' = IF impl = "mem"
                        THEN UpdateDeployment(registry, d, [status |-> "stopping"])
                        ELSE registry

\* the record is looked up: 404 when absent; the in-memory version marks it
\* stopping under the same lock
BeginDelete(t, d, force, retry) ==
    IF d \notin DOMAIN registry
    THEN /\ th' = [th EXCEPT ![t] = [Idle EXCEPT !.pc = "done", !.op = "delete",
                                       !.id = d, !.force = force, !.res = 404,
                                       !.after409 = retry]]
         /\ registry' = registry
    ELSE /\ th' = [th EXCEPT ![t] =
                     [Idle EXCEPT !.pc = IF impl = "db" THEN "d_mark"
                                         ELSE IF registry[d].pid = NoPid THEN "d_remove"
                                         ELSE "d_term",
                                  !.op = "delete", !.id = d, !.force = force,
                                  !.pid = registry[d].pid,
                                  !.deadAtStart = ~Alive(registry[d].pid),
                                  !.after409 = retry]]
         /\ registry' = IF impl = "mem"
                        THEN UpdateDeployment(registry, d, [status |-> "stopping"])
                        ELSE registry

\* DELETE /deployments/{d}?force=...
DeleteRead(t, d, force) ==
    /\ th[t].pc = "idle"
    /\ d <= cap
    /\ BeginDelete(t, d, force, FALSE)
    /\ UNCHANGED <<impl, fg, cap, window, tagspace, statusspace, sel, hc, nextId, proc, procPort, bound, probe, removed>>

\* the client that was answered 409 calls delete again, with force=true
DeleteRetry(t) ==
    /\ th[t].pc = "done"
    /\ th[t].op = "delete"
    /\ th[t].res = 409
    /\ BeginDelete(t, th[t].id, TRUE, TRUE)
    /\ UNCHANGED <<impl, fg, cap, window, tagspace, statusspace, sel, hc, nextId, proc, procPort, bound, probe, removed>>

\* database version: store.update_deployment(status="stopping")
DeleteMark(t) ==
    /\ th[t].pc = "d_mark"
    /\ registry' = UpdateDeployment(registry, th[t].id, [status |-> "stopping"])
    /\ th' = [th EXCEPT ![t].pc = IF th[t].pid = NoPid THEN "d_remove" ELSE "d_term"]
    /\ UNCHANGED <<impl, fg, cap, window, tagspace, statusspace, sel, hc, nextId, proc, procPort, bound, probe, removed>>

\* SIGTERM to the process group
DeleteTerm(t) ==
    /\ th[t].pc = "d_term"
    /\ th' = [th EXCEPT ![t].pc = "d_poll", ![t].sentTerm = Signalled(th[t].pid)]
    /\ UNCHANGED <<impl, fg, cap, window, tagspace, statusspace, sel, hc, registry, nextId, proc, procPort, bound, probe, removed>>

\* variant: the loop does not notice that the process is gone
DeletePollNoBreak(t) ==
    /\ th[t].pc = "d_poll"
    /\ th[t].polls < TerminatePolls
    /\ th' = [th EXCEPT ![t].polls = @ + 1]
    /\ UNCHANGED <<impl, fg, cap, window, tagspace, statusspace, sel, hc, registry, nextId, proc, procPort, bound, probe, removed>>

\* variant: "if stopped" in place of "if not stopped" after the loop
DeletePollInverted(t) ==
    /\ th[t].pc = "d_poll"
    /\ th[t].polls < TerminatePolls
    /\ th' = IF Alive(th[t].pid)
             THEN [th EXCEPT ![t].polls = @ + 1]
             ELSE IF th[t].force
             THEN [th EXCEPT ![t].stopped = TRUE, ![t].pc = "d_remove"]
             ELSE [th EXCEPT ![t] = Finish([@ EXCEPT !.stopped = TRUE], 409)]
    /\ UNCHANGED <<impl, fg, cap, window, tagspace, statusspace, sel, hc, registry, nextId, proc, procPort, bound, probe, removed>>

\* one iteration of the wait loop: os.kill(pid, 0), then sleep
DeletePoll(t) ==
    /\ th[t].pc = "d_poll"
    /\ th[t].polls < TerminatePolls
    /\ th' = IF Alive(th[t].pid)
             THEN [th EXCEPT ![t].polls = @ + 1]
             ELSE [th EXCEPT ![t].stopped = TRUE, ![t].pc = "d_remove"]
    /\ UNCHANGED <<impl, fg, cap, window, tagspace, statusspace, sel, hc, registry, nextId, proc, procPort, bound, probe, removed>>

\* variant: SIGTERM is sent again in place of SIGKILL
DeleteKillSendsTerm(t) ==
    /\ th[t].pc = "d_poll"
    /\ th[t].polls = TerminatePolls
    /\ th[t].force
    /\ th' = [th EXCEPT ![t].pc = "d_remove", ![t].sentTerm = Signalled(th[t].pid)]
    /\ UNCHANGED <<impl, fg, cap, window, tagspace, statusspace, sel, hc, registry, nextId, proc, procPort, bound, probe, removed>>

\* variant: after SIGKILL the handler waits until the process is gone
DeleteKillWaits(t) ==
    /\ th[t].pc = "d_poll"
    /\ th[t].polls = TerminatePolls
    /\ th[t].force
    /\ th' = IF Alive(th[t].pid)
             THEN [th EXCEPT ![t].sentKill = TRUE]
             ELSE [th EXCEPT ![t].pc = "d_remove"]
    /\ UNCHANGED <<impl, fg, cap, window, tagspace, statusspace, sel, hc, registry, nextId, proc, procPort, bound, probe, removed>>

\* the timeout elapsed with force set: SIGKILL to the process group
DeleteKill(t) ==
    /\ th[t].pc = "d_poll"
    /\ th[t].polls = TerminatePolls
    /\ th[t].force
    /\ th' = [th EXCEPT ![t].pc = "d_remove", ![t].sentKill = Signalled(th[t].pid)]
    /\ UNCHANGED <<impl, fg, cap, window, tagspace, statusspace, sel, hc, registry, nextId, proc, procPort, bound, probe, removed>>

\* variant: the process is killed before the 409 is raised
DeleteConflictKills(t) ==
    /\ th[t].pc = "d_poll"
    /\ th[t].polls = TerminatePolls
    /\ ~th[t].force
    /\ registry' = UpdateDeployment(registry, th[t].id, [status |-> "stopping"])
    /\ th' = [th EXCEPT ![t] = Finish([@ EXCEPT !.sentKill = Signalled(th[t].pid)],
                                      IF impl = "mem" /\ th[t].id \notin DOMAIN registry
                                      THEN 500 ELSE 409)]
    /\ UNCHANGED <<impl, fg, cap, window, tagspace, statusspace, sel, hc, nextId, proc, procPort, bound, probe, removed>>

\* variant: the status is not written again before the 409
DeleteConflictNoMark(t) ==
    /\ th[t].pc = "d_poll"
    /\ th[t].polls = TerminatePolls
    /\ ~th[t].force
    /\ th' = [th EXCEPT ![t] = Finish(@, IF impl = "mem" /\ th[t].id \notin DOMAIN registry
                                          THEN 500 ELSE 409)]
    /\ UNCHANGED <<impl, fg, cap, window, tagspace, statusspace, sel, hc, registry, nextId, proc, procPort, bound, probe, removed>>

\* the timeout elapsed without force: the record stays, marked stopping, 409;
\* _deployments[deployment_id] raises KeyError when the record is gone
DeleteConflict(t) ==
    /\ th[t].pc = "d_poll"
    /\ th[t].polls = TerminatePolls
    /\ ~th[t].force
    /\ registry' = UpdateDeployment(registry, th[t].id, [status |-> "stopping"])
    /\ th' = [th EXCEPT ![t] = Finish(@, IF impl = "mem" /\ th[t].id \notin DOMAIN registry
                                          THEN 500 ELSE 409)]
    /\ UNCHANGED <<impl, fg, cap, window, tagspace, statusspace, sel, hc, nextId, proc, procPort, bound, probe, removed>>

\* in-memory version: _deployments.pop, 200
DeletePop(t) ==
    /\ th[t].pc = "d_remove"
    /\ impl = "mem"
    /\ registry' = RemoveDeployment(registry, th[t].id)
    /\ removed' = removed \cup {th[t].id}
    /\ th' = [th EXCEPT ![t] = Finish(@, 200)]
    /\ UNCHANGED <<impl, fg, cap, window, tagspace, statusspace, sel, hc, nextId, proc, procPort, bound, probe>>

\* variant: the last update before the removal leaves health_ok as it is
DeleteFinalUpdateKeepsHealth(t) ==
    /\ th[t].pc = "d_remove"
    /\ impl = "db"
    /\ registry' = UpdateDeployment(registry, th[t].id,
                      [status |-> "stopped", stopped_at |-> TRUE, pid |-> NoPid])
    /\ th' = [th EXCEPT ![t].pc = "d_row"]
    /\ UNCHANGED <<impl, fg, cap, window, tagspace, statusspace, sel, hc, nextId, proc, procPort, bound, probe, removed>>

\* database version: the row is first written as stopped with its pid cleared
DeleteFinalUpdate(t) ==
    /\ th[t].pc = "d_remove"
    /\ impl = "db"
    /\ registry' = UpdateDeployment(registry, th[t].id,
                      [status |-> "stopped", stopped_at |-> TRUE, pid |-> NoPid,
                       health_ok |-> FALSE])
    /\ th' = [th EXCEPT ![t].pc = "d_row"]
    /\ UNCHANGED <<impl, fg, cap, window, tagspace, statusspace, sel, hc, nextId, proc, procPort, bound, probe, removed>>

\* database version: store.delete_deployment, 200
DeleteRow(t) ==
    /\ th[t].pc = "d_row"
    /\ registry' = RemoveDeployment(registry, th[t].id)
    /\ removed' = removed \cup {th[t].id}
    /\ th' = [th EXCEPT ![t] = Finish(@, 200)]
    /\ UNCHANGED <<impl, fg, cap, window, tagspace, statusspace, sel, hc, nextId, proc, procPort, bound, probe>>

\* the response is sent; the thread takes the next request
Respond(t) ==
    /\ th[t].pc = "done"
    /\ th' = [th EXCEPT ![t] = Idle]
    /\ UNCHANGED <<impl, fg, cap, window, tagspace, statusspace, sel, hc, registry, nextId, proc, procPort, bound, probe, removed>>

\* ---- specifications ----------------------------------------------------------------
Next ==
    \/ \E p \in Ids : ProcExit(p)
    \/ \E p \in Ids : ProcBind(p)
    \/ \E t \in fg : CreateAlloc(t)
    \/ \E t \in fg : CreateSpawn(t)
    \/ \E t \in fg : CreateSpawnFail(t)
    \/ \E t \in fg : CreateInsert(t)
    \/ \E t \in fg : CreateReturn(t)
    \/ \E d \in Ids : ProbeCheck(d)
    \/ \E d \in Ids : ProbeDeadWrite(d)
    \/ \E d \in Ids : ProbeHttp(d)
    \/ \E d \in Ids : ProbeWrite(d)
    \/ \E t \in fg, d \in Ids : GetRead(t, d)
    \/ \E t \in fg : GetCheck(t)
    \/ \E t \in fg : GetWrite(t)
    \/ \E t \in fg, tag \in TagFilters(tagspace), status \in StatusFilters(statusspace) :
          ListMem(t, tag, status)
    \/ \E t \in fg, tag \in TagFilters(tagspace), status \in StatusFilters(statusspace) :
          ListQuery(t, tag, status)
    \/ \E t \in fg : ListCheck(t)
    \/ \E t \in fg : ListWrite(t)
    \/ \E t \in fg, d \in Ids, force \in BOOLEAN : DeleteRead(t, d, force)
    \/ \E t \in fg : DeleteRetry(t)
    \/ \E t \in fg : DeleteMark(t)
    \/ \E t \in fg : DeleteTerm(t)
    \/ \E t \in fg : DeletePoll(t)
    \/ \E t \in fg : DeleteKill(t)
    \/ \E t \in fg : DeleteConflict(t)
    \/ \E t \in fg : DeletePop(t)
    \/ \E t \in fg : DeleteFinalUpdate(t)
    \/ \E t \in fg : DeleteRow(t)
    \/ \E t \in fg : Respond(t)

\* one request at a time, background probes and worker processes beside it
Spec == Init /\ [][Next]_vars

\* the same with a second deployment
SpecSeq == InitSeq /\ [][Next]_vars

\* requests handled concurrently
SpecConc == InitConc /\ [][Next]_vars

\* a server that receives create requests only
NextCreate ==
    \/ \E p \in Ids : ProcExit(p)
    \/ \E p \in Ids : ProcBind(p)
    \/ \E t \in fg : CreateAlloc(t)
    \/ \E t \in fg : CreateSpawn(t)
    \/ \E t \in fg : CreateSpawnFail(t)
    \/ \E t \in fg : CreateInsert(t)
    \/ \E t \in fg : CreateReturn(t)
    \/ \E d \in Ids : ProbeCheck(d)
    \/ \E d \in Ids : ProbeDeadWrite(d)
    \/ \E d \in Ids : ProbeHttp(d)
    \/ \E d \in Ids : ProbeWrite(d)
    \/ \E t \in fg : Respond(t)

\* create calls one after another
SpecCreate == InitSeq /\ [][NextCreate]_vars

\* create calls that overlap
SpecCreateConc == InitCreateConc /\ [][NextCreate]_vars

\* a server that receives create and list requests only
NextList ==
    \/ \E p \in Ids : ProcExit(p)
    \/ \E p \in Ids : ProcBind(p)
    \/ \E t \in fg : CreateAlloc(t)
    \/ \E t \in fg : CreateSpawn(t)
    \/ \E t \in fg : CreateSpawnFail(t)
    \/ \E t \in fg : CreateInsert(t)
    \/ \E t \in fg : CreateReturn(t)
    \/ \E d \in Ids : ProbeCheck(d)
    \/ \E d \in Ids : ProbeDeadWrite(d)
    \/ \E d \in Ids : ProbeHttp(d)
    \/ \E d \in Ids : ProbeWrite(d)
    \/ \E t \in fg, tag \in TagFilters(tagspace), status \in StatusFilters(statusspace) :
          ListMem(t, tag, status)
    \/ \E t \in fg, tag \in TagFilters(tagspace), status \in StatusFilters(statusspace) :
          ListQuery(t, tag, status)
    \/ \E t \in fg : ListCheck(t)
    \/ \E t \in fg : ListWrite(t)
    \/ \E t \in fg : Respond(t)

\* tagged deployments, created and listed one request at a time
SpecList == InitList /\ [][NextList]_vars

\* the same with status filters
SpecFilter == InitFilter /\ [][NextList]_vars

\* the HTTP health check on its own
NextHealth == HealthRequest \/ RootRequest

SpecHealth == InitHealth /\ [][NextHealth]_vars

\* the GPU selector on its own
SpecGpu == InitGpu /\ [][SelectGpu]_vars

\* create calls and their health probes, every HTTP attempt counted
SpecProbe == InitProbe /\ [][NextCreate]_vars

\* a server that receives create and delete requests only, with workers that
\* have not come to listen on their port: delete never looks at the port
NextDelete ==
    \/ \E p \in Ids : ProcExit(p)
    \/ \E t \in fg : CreateAlloc(t)
    \/ \E t \in fg : CreateSpawn(t)
    \/ \E t \in fg : CreateSpawnFail(t)
    \/ \E t \in fg : CreateInsert(t)
    \/ \E t \in fg : CreateReturn(t)
    \/ \E d \in Ids : ProbeCheck(d)
    \/ \E d \in Ids : ProbeDeadWrite(d)
    \/ \E d \in Ids : ProbeHttp(d)
    \/ \E d \in Ids : ProbeWrite(d)
    \/ \E t \in fg, d \in Ids, force \in BOOLEAN : DeleteRead(t, d, force)
    \/ \E t \in fg : DeleteRetry(t)
    \/ \E t \in fg : DeleteMark(t)
    \/ \E t \in fg : DeleteTerm(t)
    \/ \E t \in fg : DeletePoll(t)
    \/ \E t \in fg : DeleteKill(t)
    \/ \E t \in fg : DeleteConflict(t)
    \/ \E t \in fg : DeletePop(t)
    \/ \E t \in fg : DeleteFinalUpdate(t)
    \/ \E t \in fg : DeleteRow(t)
    \/ \E t \in fg : Respond(t)

\* the steps of a delete handler once the record has been found
DeleteStep(t) ==
    /\ t \in fg
    /\ \/ DeleteMark(t) \/ DeleteTerm(t) \/ DeletePoll(t) \/ DeleteKill(t)
       \/ DeleteConflict(t) \/ DeletePop(t) \/ DeleteFinalUpdate(t) \/ DeleteRow(t)

\* one request at a time, and the request thread keeps running: the handler
\* is synchronous code whose only waits are time.sleep(0.5) in a loop bounded
\* by PROCESS_TERMINATE_TIMEOUT; nothing is assumed about the worker exiting
SpecDeleteFair == Init /\ [][NextDelete]_vars /\ \A t \in Threads : WF_vars(DeleteStep(t))

\* the steps of the background health check of deployment d
ProbeStep(d) == ProbeCheck(d) \/ ProbeDeadWrite(d) \/ ProbeHttp(d) \/ ProbeWrite(d)

\* the end of a create handler: the task is added and the response returned
CreateEnd(t) == t \in fg /\ CreateReturn(t)

\* the background task of every deployment keeps running once it is added
\* (time.sleep calls and requests with a timeout are its only waits), and a
\* create handler that has inserted its record goes on to add the task
SpecProbeFair ==
    /\ Init /\ [][NextDelete]_vars
    /\ \A d \in Ids : WF_vars(ProbeStep(d))
    /\ \A t \in Threads : WF_vars(CreateEnd(t))

\* ---- claims about the registry and its operations ----------------------------------
Present(d) == d \in DOMAIN registry

\* C1: in every reachable state no record whose pid is unset has status
\* "running".
C1_NoRunningWithoutPid ==
    \A d \in DOMAIN registry :
        registry[d].pid = NoPid => registry[d].status # "running"

\* a delete call that has just finished
Deleted(t) == th[t].pc = "done" /\ th[t].op = "delete"

\* C2: a record is removed by delete only after its process has exited: in
\* the state right after a removal the worker is not alive, with force=true too.
C2_RemovedOnlyAfterExit ==
    [][\A d \in Ids :
          (d \in DOMAIN registry /\ d \notin DOMAIN registry') => proc'[d] # "alive"]_vars

\* C3: a delete with force=false whose wait times out answers 409, and at that
\* moment the record is in the registry with status "stopping".
C3_ConflictKeepsRecord ==
    [][\A t \in fg :
          (th[t].pc = "d_poll" /\ ~th[t].force /\ th'[t].pc = "done")
          => /\ th'[t].res = 409
             /\ th[t].id \in DOMAIN registry'
             /\ registry'[th[t].id].status = "stopping"]_vars

C3_Witness ==
    \E t \in fg :
        /\ Deleted(t) /\ th[t].res = 409 /\ th[t].sentTerm /\ ~th[t].force
        /\ Present(th[t].id) /\ registry[th[t].id].status = "stopping"
        /\ Alive(th[t].id)

\* C4: after a 409, delete called again with force=true answers 200 and the
\* record is gone; a worker that still has not exited was sent the kill signal.
C4_ForcedRetryRemoves ==
    \A t \in fg :
        (Deleted(t) /\ th[t].after409)
        => /\ th[t].res = 200
           /\ ~Present(th[t].id)
           /\ (Alive(th[t].id) => th[t].sentKill)

C4_Witness ==
    \E t \in fg :
        /\ Deleted(t) /\ th[t].after409 /\ th[t].force
        /\ th[t].sentKill /\ th[t].res = 200 /\ th[t].id \in removed

C6_CooperativeNoKill ==
    \A t \in fg :
        (Deleted(t) /\ th[t].sentTerm /\ th[t].stopped)
        => /\ th[t].res = 200
           /\ ~Present(th[t].id)
           /\ ~th[t].sentKill

C6_Witness ==
    \E t \in fg :
        /\ Deleted(t) /\ th[t].sentTerm /\ th[t].stopped /\ th[t].force
        /\ th[t].res = 200 /\ th[t].id \in removed

\* C7: an id removed by delete never reappears in the registry, also when its
\* health probe finishes after the removal, and get on it answers 404.
C7_RemovedStaysRemoved ==
    /\ \A d \in removed : ~Present(d)
    /\ \A t \in fg :
          (th[t].pc = "done" /\ th[t].op = "get" /\ th[t].id \in removed)
          => th[t].res = 404

C7_Witness ==
    \E d \in removed, t \in fg :
        /\ probe[d].pc = "done" /\ probe[d].late
        /\ th[t].pc = "done" /\ th[t].op = "get" /\ th[t].id = d /\ th[t].res = 404

\* C8: with create calls one after another, no two records that are in the
\* registry at the same time have the same port.
C8_PortsDistinct ==
    \A d1, d2 \in DOMAIN registry :
        d1 # d2 => registry[d1].port # registry[d2].port

\* C9: every record stored by create, "starting" or "failed", has a port p
\* with low <= p <= high.
C9_PortInRange ==
    \A d \in DOMAIN registry :
        PortLow <= registry[d].port /\ registry[d].port <= PortHigh

C9_Witness ==
    \E d1, d2 \in DOMAIN registry :
        /\ registry[d1].status = "starting" /\ registry[d2].status = "failed"
        /\ registry[d1].port = PortLow /\ registry[d2].port = PortHigh

\* C10: create registers the port it found free without looking at the
\* registry again, so two overlapping create calls that both found the same
\* port free both register a record with it.
C10_InsertKeepsAllocatedPort ==
    [][\A t \in fg :
          (th[t].pc = "c_insert" /\ th'[t].pc = "c_return")
          => /\ th[t].id \in DOMAIN registry'
             /\ registry'[th[t].id].port = th[t].port]_vars

C10_Witness ==
    \E t1, t2 \in fg :
        /\ t1 # t2
        /\ th[t1].pc = "c_return" /\ th[t2].pc = "c_return"
        /\ Present(th[t1].id) /\ Present(th[t2].id)
        /\ registry[th[t1].id].port = registry[th[t2].id].port
        /\ registry[th[t1].id].status = "starting"
        /\ registry[th[t2].id].status = "starting"

\* a create call that has just finished
Created(t) == th[t].pc = "done" /\ th[t].op = "create"

\* C11: a create whose port allocation and launch both succeeded answers 201,
\* and at that moment its record is in the registry with status "starting",
\* the pid of the spawned process, the allocated port and stopped_at unset.
C11_CreateStoresStarting ==
    [][\A t \in fg :
          (th[t].pc = "c_return" /\ th'[t].pc = "done")
          => /\ th'[t].res = 201
             /\ th[t].id \in DOMAIN registry'
             /\ th[t].pid # NoPid
             /\ proc[th[t].pid] # "none"
             /\ registry'[th[t].id].status = "starting"
             /\ registry'[th[t].id].pid = th[t].pid
             /\ registry'[th[t].id].port = th[t].port
             /\ registry'[th[t].id].stopped_at = FALSE]_vars

\* every port of the configured range is occupied
RangeExhausted == \A p \in Ports : ~IsPortFree(p)

\* C12: when every port of the range is occupied, create answers 503, spawns
\* no process, starts no health probe and leaves the registry as it was.
C12_ExhaustedRangeNoEffect ==
    [][\A t \in fg :
          (th[t].pc = "idle" /\ th'[t].op = "create" /\ RangeExhausted)
          => /\ th'[t].pc = "done" /\ th'[t].res = 503
             /\ registry' = registry
             /\ proc' = proc
             /\ probe' = probe
             /\ nextId' = nextId]_vars

C12_Witness ==
    \E t \in fg :
        /\ Created(t) /\ th[t].res = 503 /\ RangeExhausted
        /\ \A d \in DOMAIN registry : registry[d].status # "failed"

\* C13: when spawning the worker fails, create answers 500 and the record of
\* that attempt is in the registry with status "failed", pid unset and
\* health_ok false; no process and no health probe exist for it.
C13_LaunchFailureRecorded ==
    [][\A t \in fg :
          (th[t].pc = "c_spawn" /\ th'[t].pc = "done")
          => /\ th'[t].res = 500
             /\ th'[t].id \in DOMAIN registry' \ DOMAIN registry
             /\ registry'[th'[t].id].status = "failed"
             /\ registry'[th'[t].id].pid = NoPid
             /\ registry'[th'[t].id].health_ok = FALSE
             /\ proc'[th'[t].id] = "none"
             /\ probe'[th'[t].id].pc = "none"]_vars

C13_Witness ==
    \E t \in fg :
        /\ Created(t) /\ th[t].res = 500 /\ Present(th[t].id)
        /\ registry[th[t].id].status = "failed" /\ registry[th[t].id].pid = NoPid
        /\ ~registry[th[t].id].health_ok
        /\ proc[th[t].id] = "none" /\ probe[th[t].id].pc = "none"

\* C14: if the worker has exited when the probe's grace period ends, the probe
\* makes no HTTP request at all and writes status "stopped", health_ok false
\* and stopped_at.
C14_DeadWorkerProbeStops ==
    [][\A d \in Ids :
          /\ (probe[d].pc = "sleep" /\ probe'[d].pc # "sleep" /\ ~Alive(d))
             => probe'[d].pc = "dead_write"
          /\ probe[d].pc = "dead_write" => probe[d].attempts = 0
          /\ (probe[d].pc = "dead_write" /\ probe'[d].pc = "done")
             => /\ probe'[d].attempts = 0
                /\ Present(d)
                   => /\ registry'[d].status = "stopped"
                      /\ registry'[d].health_ok = FALSE
                      /\ registry'[d].stopped_at = TRUE]_vars

C14_Witness ==
    \E d \in DOMAIN registry :
        /\ probe[d].pc = "done" /\ proc[d] = "dead"
        /\ registry[d].status = "stopped" /\ ~registry[d].health_ok
        /\ registry[d].stopped_at
        /\ \A t \in fg : th[t].op \notin {"delete", "get", "list"}

\* C15: if the worker is alive after the grace period and answers 200 at some
\* attempt of the probe window, the polling ends with that attempt and the
\* probe's final write leaves status "running" and health_ok true.
C15_AnsweredProbeHealthy ==
    [][\A d \in Ids :
          /\ probe[d].answered
             => /\ probe[d].pc = "write"
                /\ probe[d].attempts \in 1..HealthAttempts
          /\ (probe[d].pc = "write" /\ probe'[d].pc = "done"
                /\ probe[d].answered /\ Present(d))
             => /\ registry'[d].status = "running"
                /\ registry'[d].health_ok = TRUE]_vars

C15_Witness ==
    \E d \in DOMAIN registry :
        /\ probe[d].pc = "done" /\ Alive(d) /\ bound[d]
        /\ registry[d].status = "running" /\ registry[d].health_ok

\* C16: if the worker is alive after the grace period and never answers 200,
\* the probe makes 12 HTTP attempts and no more, and its final write leaves
\* status "running" and health_ok false.
C16_SilentWorkerProbeBounded ==
    [][\A d \in Ids :
          /\ probe'[d].attempts <= HealthAttempts
          /\ (probe[d].pc = "write" /\ ~probe[d].answered)
             => probe[d].attempts = HealthAttempts
          /\ (probe[d].pc = "write" /\ probe'[d].pc = "done"
                /\ ~probe[d].answered /\ Present(d))
             => /\ registry'[d].status = "running"
                /\ registry'[d].health_ok = FALSE]_vars

C16_Witness ==
    \E d \in DOMAIN registry :
        /\ probe[d].pc = "done" /\ Alive(d) /\ ~bound[d]
        /\ registry[d].status = "running" /\ ~registry[d].health_ok

\* a lazy refresh writes record d in this step: the write of get, of one row
\* of the database list, or the in-memory list's pass over the registry
RefreshWrites(t, d) ==
    \/ th[t].pc \in {"g_write", "l_write"} /\ th'[t].pc # th[t].pc /\ th[t].id = d
    \/ th[t].pc = "idle" /\ th'[t].op = "list" /\ th'[t].pc = "done"
       /\ registry[d].pid # NoPid

\* what os.kill(pid, 0) told that refresh about the process of record d
RefreshSawAlive(t, d) ==
    IF th[t].pc = "idle" THEN Alive(registry[d].pid) ELSE th[t].alive

\* C17: get and list, on a record whose pid is set and whose process is no
\* longer alive, write status "stopped" and health_ok false, and make no HTTP
\* health check for it.
C17_DeadRefreshStops ==
    [][\A t \in fg : \A d \in DOMAIN registry :
          (RefreshWrites(t, d) /\ ~RefreshSawAlive(t, d))
          => /\ d \in DOMAIN registry'
             /\ registry'[d].status = "stopped"
             /\ registry'[d].health_ok = FALSE
             /\ d \notin th'[t].checked]_vars

C17_Witness ==
    \E t \in fg :
        /\ th[t].pc = "done" /\ th[t].op \in {"get", "list"} /\ th[t].res = 200
        /\ th[t].checked = {}
        /\ \E d \in DOMAIN registry :
              /\ registry[d].pid = d /\ proc[d] = "dead"
              /\ registry[d].status = "stopped" /\ ~registry[d].health_ok
              /\ ~registry[d].stopped_at

\* C18: a lazy refresh (get or list) of a record whose process is alive
\* changes health_ok only; the status of the record, "starting" or "stopping"
\* for example, is left as it was.
C18_LiveRefreshKeepsStatus ==
    [][\A t \in fg : \A d \in DOMAIN registry :
          (RefreshWrites(t, d) /\ RefreshSawAlive(t, d))
          => /\ d \in DOMAIN registry'
             /\ registry'[d].status = registry[d].status
             /\ registry'[d].pid = registry[d].pid
             /\ registry'[d].port = registry[d].port
             /\ registry'[d].stopped_at = registry[d].stopped_at]_vars

\* thread t starts handling a get or a delete in this step
Accepts(t) ==
    /\ th'[t].op \in {"get", "delete"}
    /\ \/ th[t].pc = "idle" /\ th'[t].pc # "idle"
       \/ th[t].pc = "done" /\ th[t].res = 409 /\ th'[t] # th[t] /\ th'[t].pc # "idle"

\* C19: get and delete on an id that is not in the registry answer 404, send
\* no signal and leave every record of the registry unchanged.
C19_AbsentIdNotFound ==
    [][\A t \in fg :
          (Accepts(t) /\ th'[t].id \notin DOMAIN registry)
          => /\ th'[t].pc = "done" /\ th'[t].res = 404
             /\ ~th'[t].sentTerm /\ ~th'[t].sentKill
             /\ registry' = registry
             /\ proc' = proc]_vars

C19_Witness ==
    \E t \in fg :
        /\ Deleted(t) /\ th[t].res = 404 /\ th[t].id \in removed
        /\ Alive(th[t].id) /\ ~th[t].sentTerm /\ ~th[t].sentKill

\* C20: list with only the tag filter set to x returns exactly the registry
\* records whose tag list contains x: every such record and no other.
C20_TagFilterExact ==
    [][\A t \in fg :
          (th[t].pc # "done" /\ th'[t].pc = "done" /\ th'[t].op = "list"
             /\ th'[t].tag # NoTag)
          => th'[t].body =
                {d \in DOMAIN registry' :
                   \E i \in DOMAIN Tags(registry'[d]) :
                      Tags(registry'[d])[i] = th'[t].tag}]_vars

C20_Witness ==
    \E t \in fg : \E d \in DOMAIN registry :
        /\ th[t].pc = "done" /\ th[t].op = "list" /\ th[t].tag = "x"
        /\ registry[d].tags \in {<<"y", "x">>, AsJson(<<"y", "x">>)}
        /\ th[t].body = {d}

\* C21: every entry returned by list satisfies all the supplied filters at
\* once: its tags contain the tag filter and the status shown in the entry
\* equals the status filter ignoring case (no model filter is supplied here).
C21_ReturnedEntriesMatchFilters ==
    \A t \in fg :
        (th[t].pc = "done" /\ th[t].op = "list")
        => \A d \in th[t].body :
              /\ th[t].tag # NoTag
                 => \E i \in DOMAIN Tags(registry[d]) : Tags(registry[d])[i] = th[t].tag
              /\ th[t].status # NoStatus
                 => Lower(th[t].shown[d]) = Lower(th[t].status)

\* the indexes the discovery query reported
Discovered == {sel.gpus[i].id : i \in DOMAIN sel.gpus}

\* the free memory of a reported index
FreeOf(id) == (CHOOSE g \in {sel.gpus[i] : i \in DOMAIN sel.gpus} : g.id = id).free

\* C22: the GPU selector returns none if and only if the discovered set is
\* empty; otherwise the result is a member of the discovered set, and when
\* preferred is a member of that set the result is preferred.
C22_SelectorMembership ==
    sel.pc = "picked"
    => /\ sel.result = NoGpu <=> Discovered = {}
       /\ Discovered # {} => sel.result \in Discovered
       /\ sel.preferred \in Discovered => sel.result = sel.preferred

C22_Witness ==
    /\ sel.pc = "picked" /\ sel.preferred = 0 /\ sel.result = 0
    /\ \E id \in Discovered : FreeOf(id) > FreeOf(0)

\* C23: when preferred is absent or not in the discovered set, the selector
\* returns an id whose free memory is the maximum over the discovered set, and
\* among the ids with that maximum it returns the lowest, for every discovery
\* order of the set.
C23_MaxFreeLowestId ==
    (sel.pc = "picked" /\ sel.preferred \notin Discovered /\ Discovered # {})
    => /\ \A id \in Discovered : FreeOf(id) <= FreeOf(sel.result)
       /\ \A id \in Discovered : FreeOf(id) = FreeOf(sel.result) => sel.result <= id

\* C24: the port allocator returns the smallest port of [low, high] whose bind
\* probe succeeds, and fails exactly when no port of the range passes the probe.
C24_SmallestFreePort ==
    [][\A t \in fg :
          (th[t].pc = "idle" /\ th'[t].op = "create")
          => /\ th'[t].pc = "c_spawn"
                => /\ th'[t].port \in Ports
                   /\ IsPortFree(th'[t].port)
                   /\ \A q \in Ports : q < th'[t].port => ~IsPortFree(q)
             /\ (th'[t].pc = "done" /\ th'[t].res = 503)
                <=> \A p \in Ports : ~IsPortFree(p)]_vars

\* an allocation passed over the occupied first port and took the next one
C24_Witness ==
    \E t \in fg :
        /\ th[t].pc = "c_spawn" /\ th[t].port = PortLow + 1
        /\ ~IsPortFree(PortLow)

\* the health request on that port cannot be answered: nothing listens there
Unanswered(port) == HealthOutcomes(port) = {FALSE}

\* what a failed check leaves in record d: health_ok false, status "stopped"
\* when the process was gone, and the fields a refresh never writes as they were
AbsorbedInto(d, gone) ==
    /\ d \in DOMAIN registry'
    /\ registry'[d].health_ok = FALSE
    /\ gone => registry'[d].status = "stopped"
    /\ registry'[d].pid = registry[d].pid
    /\ registry'[d].port = registry[d].port
    /\ registry'[d].tags = registry[d].tags

\* C25: a failure of the HTTP health request or of the liveness check during
\* get, list or the background probe never produces an error response and
\* never aborts the operation: get and list answer 200, the probe goes on to
\* its write, and the record gets health_ok false (status "stopped" when the
\* process is gone).
C25_ProbeFailuresAbsorbed ==
    [][/\ \A t \in fg :
             /\ (th[t].pc = "g_write" /\ th'[t].pc # "g_write"
                   /\ (~th[t].alive \/ Unanswered(th[t].port)))
                => /\ th'[t].pc = "done" /\ th'[t].res = 200
                   /\ Present(th[t].id) => AbsorbedInto(th[t].id, ~th[t].alive)
             /\ (th[t].pc = "l_write" /\ th'[t].pc # "l_write"
                   /\ (~th[t].alive \/ Unanswered(th[t].port)))
                => /\ th'[t].pc = "l_next"
                   /\ Present(th[t].id) => AbsorbedInto(th[t].id, ~th[t].alive)
             /\ (th[t].pc = "l_next" /\ th'[t].pc = "done") => th'[t].res = 200
             /\ (th[t].pc = "idle" /\ th'[t].op = "list" /\ th'[t].pc = "done")
                => /\ th'[t].res = 200
                   /\ \A d \in DOMAIN registry :
                         (registry[d].pid # NoPid
                            /\ (~Alive(registry[d].pid) \/ Unanswered(registry[d].port)))
                         => AbsorbedInto(d, ~Alive(registry[d].pid))
       /\ \A d \in Ids :
             /\ (probe[d].pc = "sleep" /\ probe'[d].pc # "sleep" /\ ~Alive(d))
                => probe'[d].pc = "dead_write"
             /\ (probe[d].pc = "dead_write" /\ probe'[d].pc # "dead_write")
                => /\ probe'[d].pc = "done"
                   /\ Present(d) => AbsorbedInto(d, TRUE)
             /\ (probe[d].pc = "http" /\ probe'[d] # probe[d] /\ Unanswered(procPort[d]))
                => /\ probe'[d].pc \in {"http", "write"}
                   /\ probe'[d].success = FALSE
             /\ (probe[d].pc = "write" /\ probe'[d].pc # "write" /\ ~probe[d].success)
                => /\ probe'[d].pc = "done"
                   /\ Present(d) => AbsorbedInto(d, FALSE)]_vars

\* a get answered 200 for a live worker that was not listening yet
C25_Witness ==
    \E t \in fg : \E d \in DOMAIN registry :
        /\ th[t].pc = "done" /\ th[t].op = "get" /\ th[t].res = 200
        /\ th[t].id = d /\ th[t].checked = {d}
        /\ proc[d] = "alive" /\ ~bound[d]
        /\ registry[d].health_ok = FALSE

\* C26: in every reachable state the status of every registry record is one of
\* starting, running, stopped, failed, stopping.
C26_StatusDomain ==
    \A d \in DOMAIN registry : registry[d].status \in Statuses

\* a refresh has written the status of a live worker that did not answer
C26_Witness ==
    \E t \in fg : \E d \in DOMAIN registry :
        /\ th[t].pc = "done" /\ th[t].op \in {"get", "list"} /\ d \in th[t].checked
        /\ registry[d].status = "running" /\ ~registry[d].health_ok
        /\ proc[d] = "alive"

\* C27: the record of a successfully launched deployment has health_ok unknown,
\* neither true nor false, from its creation until the health probe or a lazy
\* refresh first writes it; stated for the record just inserted, before the
\* probe is scheduled and with no other request running.
C27_HealthUnknownAtCreation ==
    \A t \in fg : \A d \in DOMAIN registry :
        (th[t].pc = "c_return" /\ th[t].id = d /\ registry[d].pid # NoPid
           /\ probe[d].pc = "none")
        => registry[d].health_ok \notin BOOLEAN

\* C28: the termination procedure of delete (mark "stopping", signal, poll,
\* remove) is entered only for a record whose status is running, starting or
\* failed; delete on a record in any other status does not start it.
C28_TerminationEntryStatus ==
    [][\A t \in fg :
          (th[t].pc \in {"idle", "done"} /\ th'[t].op = "delete"
             /\ th'[t].pc \in {"d_mark", "d_term", "d_remove"})
          => /\ Present(th'[t].id)
             /\ registry[th'[t].id].status \in {"running", "starting", "failed"}]_vars

\* the step of delete that issues SIGKILL: the wait loop is left for the
\* removal without the process having been seen gone
KillStep(t) == th[t].pc = "d_poll" /\ th'[t].pc = "d_remove" /\ ~th'[t].stopped

\* C29: a kill signal is sent to a deployment's process only inside a delete
\* called with force=true, and only after that same call has sent the terminate
\* signal and polled liveness for the whole termination timeout without seeing
\* the process exit; a delete with force=false never sends a kill signal.
C29_KillOnlyForcedAfterTimeout ==
    [][\A t \in fg :
          /\ (KillStep(t) \/ (th'[t].sentKill /\ ~th[t].sentKill))
             => /\ th[t].op = "delete" /\ th[t].force
                /\ th[t].sentTerm
                /\ th[t].polls = TerminatePolls
                /\ ~th[t].stopped
          /\ (th'[t].op = "delete" /\ ~th'[t].force) => ~th'[t].sentKill]_vars

\* a first delete call with force=true killed a worker that ignored SIGTERM
C29_Witness ==
    \E t \in fg :
        /\ Deleted(t) /\ th[t].force /\ ~th[t].after409
        /\ th[t].sentTerm /\ th[t].sentKill /\ ~th[t].stopped
        /\ th[t].res = 200

\* the delete handler of thread t is past the lookup of an existing record
Deleting(t) == t \in fg /\ th[t].op = "delete" /\ th[t].pc \notin {"idle", "done"}

\* C30: every delete call on an existing record eventually returns, with 200
\* or 409, even if the worker process never exits: the liveness poll is
\* bounded by the termination timeout and no step waits for the process after
\* the kill signal.
C30_DeleteReturns ==
    \A t \in Threads :
        Deleting(t) ~> (t \in fg /\ Deleted(t) /\ th[t].res \in {200, 409})

\* a forced delete has answered 200 while the worker it killed is still there
C30_Witness ==
    \E t \in fg :
        /\ Deleted(t) /\ th[t].res = 200 /\ th[t].sentKill
        /\ proc[th[t].id] = "alive"
        /\ th[t].id \in removed

\* record d belongs to a launched worker and still reads "starting"
Starting(d) ==
    /\ d \in DOMAIN registry
    /\ registry[d].pid # NoPid
    /\ registry[d].status = "starting"

\* C31: no deployment stays in status "starting" forever: for every launched
\* deployment, under fair scheduling of its background probe, eventually its
\* record has another status or has been removed.
C31_StartingEnds ==
    \A d \in Ids : Starting(d) ~> ~Starting(d)

\* the probe of a worker that never answered has moved its record to running
C31_Witness ==
    \E d \in DOMAIN registry :
        /\ probe[d].pc = "done" /\ ~probe[d].late
        /\ proc[d] = "alive" /\ ~bound[d]
        /\ registry[d].status = "running" /\ ~registry[d].health_ok
        /\ \A t \in fg : th[t].op # "delete"

\* C32: from the moment a delete call marks a record "stopping" until that
\* call removes the record or returns 409, the record's status stays
\* "stopping", whatever get, list or background-probe steps interleave.
C32_StoppingHeldDuringDelete ==
    \A t \in fg :
        (th[t].op = "delete" /\ th[t].pc \in {"d_term", "d_poll", "d_remove"}
           /\ Present(th[t].id))
        => registry[th[t].id].status = "stopping"

\* C33: no foreground operation fails with an unhandled error because the
\* record it works on was removed by a concurrent delete: a delete always
\* answers 200, 404 or 409, and a create whose worker was launched answers
\* 200 or 201.
C33_DefinedResponseAfterRemoval ==
    \A t \in fg :
        th[t].pc = "done"
        => /\ th[t].op = "delete" => th[t].res \in {200, 404, 409}
           /\ (th[t].op = "create" /\ th[t].id \in Ids /\ proc[th[t].id] # "none")
              => th[t].res \in {200, 201}

\* C34: no operation (health probe, get, list, delete) changes the
\* deployment_id or the port of a record between its creation and its
\* removal: a record that stays in the registry stays under its id with the
\* port it was created with.
C34_IdAndPortFixed ==
    [][\A d \in DOMAIN registry :
          d \in DOMAIN registry' => registry'[d].port = registry[d].port]_vars

\* a record written by its probe and then marked by a delete still has the
\* port its worker was started on
C34_Witness ==
    \E t \in fg : \E d \in DOMAIN registry :
        /\ th[t].op = "delete" /\ th[t].pc = "d_poll" /\ th[t].id = d
        /\ probe[d].pc = "done"
        /\ registry[d].status = "stopping"
        /\ registry[d].port \in Ports /\ registry[d].port = procPort[d]

\* C35: get and list leave a record whose pid is unset (a "failed" record)
\* completely unchanged: no liveness check, no HTTP check and no field is
\* written.
C35_UnsetPidUntouched ==
    [][\A t \in fg : \A d \in DOMAIN registry :
          registry[d].pid = NoPid
          => /\ (th[t].pc = "idle" /\ th'[t].op = "get" /\ th'[t].id = d)
                => /\ th'[t].pc = "done" /\ th'[t].res = 200
                   /\ th'[t].checked = {}
                   /\ registry' = registry
             /\ (th'[t].op = "list" /\ th'[t] # th[t])
                => /\ d \in DOMAIN registry' /\ registry'[d] = registry[d]
                   /\ d \notin th'[t].checked
                   /\ d \notin th'[t].todo
                   /\ th'[t].pc = "l_write" => th'[t].id # d]_vars

\* a get has answered 200 for the record of a failed launch, left as it was
C35_Witness ==
    \E t \in fg : \E d \in DOMAIN registry :
        /\ th[t].pc = "done" /\ th[t].op = "get" /\ th[t].id = d /\ th[t].res = 200
        /\ registry[d].pid = NoPid /\ registry[d].status = "failed"
        /\ registry[d].stopped_at /\ ~registry[d].health_ok

\* C36: one HTTP health check returns true iff the health path answered 200,
\* or the health-path request itself failed (unreachable or timed out) and the
\* single fallback request to the root path answered 200; a non-200 answer on
\* the health path yields false without any fallback request.
C36_HealthCheckResult ==
    hc.pc = "done"
    => /\ hc.result <=> (Is200(hc.health) \/ (~Answered(hc.health) /\ Is200(hc.root)))
       /\ Answered(hc.health) => hc.requests = <<"health">>
       /\ ~Answered(hc.health) => hc.requests = <<"health", "root">>

\* the health path answered 503: false, and the root path, which would have
\* answered 200, was not asked
C36_Witness ==
    /\ hc.pc = "done"
    /\ hc.health = [kind |-> "status", code |-> 503]
    /\ Is200(hc.root)
    /\ ~hc.result
    /\ hc.requests = <<"health">>

\* C37: in every reachable state a registry record with health_ok true has
\* status "running" or "stopping"; no record with status "stopped", "failed"
\* or "starting" has health_ok true.
C37_HealthyOnlyRunningOrStopping ==
    \A d \in DOMAIN registry :
        registry[d].health_ok = TRUE => registry[d].status \in {"running", "stopping"}

\* a delete has marked a record whose worker had answered its health check
C37_Witness ==
    \E t \in fg : \E d \in DOMAIN registry :
        /\ th[t].op = "delete" /\ th[t].id = d /\ th[t].pc \in {"d_term", "d_poll"}
        /\ registry[d].health_ok = TRUE
        /\ registry[d].status = "stopping"

\* C38: in every reachable state a registry record with status "stopped" has
\* stopped_at set, whichever operation (health probe, get, list or delete)
\* moved it to "stopped".
C38_StoppedHasStoppedAt ==
    \A d \in DOMAIN registry :
        registry[d].status = "stopped" => registry[d].stopped_at = TRUE

====
